---- MODULE Spec2Model ----
(***************************************************************************)
(* Waktu Solat (src/script.js): CSV parsing, header resolution, date       *)
(* normalisation and the row lookup of run().                              *)
(*                                                                         *)
(* A JavaScript string is a sequence of characters; a character is a       *)
(* one-character TLA+ string, or one of the tokens "U+FEFF" (byte order    *)
(* mark), "U+2026" (ellipsis), "U+2713" (check mark), "U+2192" (arrow).    *)
(* A JavaScript object is the sequence of its own properties in property   *)
(* order, each [k |-> key, v |-> value].                                   *)
(***************************************************************************)
EXTENDS Integers, Sequences, FiniteSets, TLC

VARIABLES
    pc,        \* position of run(): "start", "await_fetch", "done"; "idle" in the function harnesses
    today,     \* the clock reading todayMYT() is computed from
    csvText,   \* the text fetchText resolved with
    table,     \* parseCSV's result
    rowToday,  \* 0 for null, else the position in table.rows of the row it refers to
    diag,      \* the locals all, first, last of the lookup-miss branch
    dom,       \* per element id: whether setText wrote it, and its textContent
    path,      \* the branches of run() taken, in order
    hIn,       \* function harness: the arguments
    hOut       \* function harness: the results

vars == <<pc, today, csvText, table, rowToday, diag, dom, path, hIn, hOut>>

(***************************************************************************)
(* Characters and the string built-ins the script uses.                    *)
(***************************************************************************)
Str(s) == [i \in 1..Len(s) |-> SubSeq(s, i, i)]

Min(S) == CHOOSE x \in S : \A y \in S : x <= y

Max(S) == CHOOSE x \in S : \A y \in S : x >= y

Digits == Str("0123456789")

LowerAlpha == Str("abcdefghijklmnopqrstuvwxyz")

UpperAlpha == Str("ABCDEFGHIJKLMNOPQRSTUVWXYZ")

\* Code-unit order of the characters in use (String.prototype.sort, <).
CodeOrder ==
    <<"\t", "\n", "\f", "\r">> \o Str(" ',-./") \o Digits \o Str(":;?") \o UpperAlpha
        \o Str("_") \o LowerAlpha \o Str("|") \o <<"U+2026", "U+2192", "U+2713", "U+FEFF">>

CodeOf == [c \in {CodeOrder[i] : i \in 1..Len(CodeOrder)} |->
              CHOOSE i \in 1..Len(CodeOrder) : CodeOrder[i] = c]

CharCode(c) == CodeOf[c]

\* WhiteSpace and LineTerminator of ECMAScript, as far as the characters in use
\* go: what trim() strips and \s matches (the byte order mark is one of them).
IsWS(c) == c \in {" ", "\t", "\n", "\r", "\f", "U+FEFF"}

DigitSet == {Digits[i] : i \in 1..Len(Digits)}

LetterSet == {LowerAlpha[i] : i \in 1..Len(LowerAlpha)} \cup {UpperAlpha[i] : i \in 1..Len(UpperAlpha)}

LowerOf == [c \in {UpperAlpha[i] : i \in 1..Len(UpperAlpha)} |->
               LowerAlpha[CHOOSE i \in 1..Len(UpperAlpha) : UpperAlpha[i] = c]]

ValueOf == [c \in DigitSet |-> (CHOOSE i \in 1..Len(Digits) : Digits[i] = c) - 1]

IsDigit(c) == c \in DigitSet

IsLetter(c) == c \in LetterSet

DigitVal(c) == ValueOf[c]

ToLowerChar(c) == IF c \in DOMAIN LowerOf THEN LowerOf[c] ELSE c

ToLowerCase(s) == [i \in 1..Len(s) |-> ToLowerChar(s[i])]

Trim(s) ==
    LET keep == {i \in 1..Len(s) : ~IsWS(s[i])}
    IN  IF keep = {} THEN <<>> ELSE SubSeq(s, Min(keep), Max(keep))

RemoveCR(s) == SelectSeq(s, LAMBDA c : c # "\r")

StripBOM(s) == IF s # <<>> /\ s[1] = "U+FEFF" THEN Tail(s) ELSE s

RECURSIVE Split(_, _)
Split(s, d) ==
    LET at == {i \in 1..Len(s) : s[i] = d}
    IN  IF at = {} THEN <<s>>
        ELSE <<SubSeq(s, 1, Min(at) - 1)>> \o Split(SubSeq(s, Min(at) + 1, Len(s)), d)

RECURSIVE Join(_, _)
Join(parts, sep) ==
    IF parts = <<>> THEN <<>>
    ELSE IF Len(parts) = 1 THEN parts[1]
    ELSE parts[1] \o sep \o Join(Tail(parts), sep)

RECURSIVE ParseInt(_)
ParseInt(ds) ==
    IF ds = <<>> THEN 0
    ELSE 10 * ParseInt(SubSeq(ds, 1, Len(ds) - 1)) + DigitVal(ds[Len(ds)])

RECURSIVE NumToStr(_)
NumToStr(n) ==
    IF n < 10 THEN <<Digits[n + 1]>>
    ELSE NumToStr(n \div 10) \o <<Digits[(n % 10) + 1]>>

PadStart2(s) ==
    IF Len(s) >= 2 THEN s
    ELSE IF Len(s) = 1 THEN <<"0">> \o s
    ELSE <<"0", "0">>

AllDigits(s) == \A i \in 1..Len(s) : IsDigit(s[i])

\* Length of the run of digits (resp. whitespace) that starts at position i.
DigitRun(s, i) ==
    LET stop == {j \in i..Len(s) : ~IsDigit(s[j])}
    IN  IF stop = {} THEN Len(s) - i + 1 ELSE Min(stop) - i

SpaceRun(s, i) ==
    LET stop == {j \in i..Len(s) : ~IsWS(s[j])}
    IN  IF stop = {} THEN Len(s) - i + 1 ELSE Min(stop) - i

StrLess(a, b) ==
    \E i \in 1..(Len(b)) :
        /\ \A j \in 1..(i - 1) : j <= Len(a) /\ a[j] = b[j]
        /\ \/ i > Len(a)
           \/ i <= Len(a) /\ CharCode(a[i]) < CharCode(b[i])

RECURSIVE Insert(_, _)
Insert(sorted, x) ==
    IF sorted = <<>> THEN <<x>>
    ELSE IF StrLess(x, sorted[1]) THEN <<x>> \o sorted
    ELSE <<sorted[1]>> \o Insert(Tail(sorted), x)

RECURSIVE Sort(_)
Sort(xs) ==
    IF xs = <<>> THEN <<>>
    ELSE Insert(Sort(SubSeq(xs, 1, Len(xs) - 1)), xs[Len(xs)])

(***************************************************************************)
(* Objects: own properties in property order (array-index keys ascending,  *)
(* then string keys in insertion order).                                   *)
(***************************************************************************)
\* A canonical numeric string; of up to nine digits here, the largest array index
\* (4294967294) being longer than any header the texts below hold.
IsArrayIndex(k) ==
    /\ Len(k) >= 1
    /\ Len(k) <= 9
    /\ AllDigits(k)
    /\ (Len(k) = 1 \/ k[1] # "0")

ObjHas(o, k) == \E i \in 1..Len(o) : o[i].k = k

ObjGet(o, k) == o[CHOOSE i \in 1..Len(o) : o[i].k = k].v

ObjKeys(o) == [i \in 1..Len(o) |-> o[i].k]

ObjSet(o, k, v) ==
    IF ObjHas(o, k)
    THEN [i \in 1..Len(o) |-> IF o[i].k = k THEN [k |-> k, v |-> v] ELSE o[i]]
    ELSE LET before ==
                 IF IsArrayIndex(k)
                 THEN {i \in 1..Len(o) :
                          IsArrayIndex(o[i].k) /\ ParseInt(o[i].k) < ParseInt(k)}
                 ELSE 1..Len(o)
             n == Cardinality(before)
         IN  SubSeq(o, 1, n) \o <<[k |-> k, v |-> v]>> \o SubSeq(o, n + 1, Len(o))

(***************************************************************************)
(* CSV parsing.                                                            *)
(***************************************************************************)
\* Mutant: the semicolon also on equal counts.
detectDelimiterOnTie(headerLine) ==
    LET comma == Len(Split(headerLine, ","))
        semi == Len(Split(headerLine, ";"))
    IN  IF semi >= comma THEN ";" ELSE ","

detectDelimiter(headerLine) ==
    LET comma == Len(Split(headerLine, ","))
        semi == Len(Split(headerLine, ";"))
    IN  IF semi > comma THEN ";" ELSE ","

\* headers.forEach((h, i) => obj[h] = cols[i] ?? "") from the i-th header on.
RECURSIVE RowObject(_, _, _, _)
RowObject(headers, cols, i, obj) ==
    IF i > Len(headers) THEN obj
    ELSE RowObject(headers, cols, i + 1,
                   ObjSet(obj, headers[i], IF i <= Len(cols) THEN cols[i] ELSE <<>>))

parseLine(line, delim, headers) ==
    LET parts == Split(line, delim)
        cols == [i \in 1..Len(parts) |-> Trim(parts[i])]
    IN  RowObject(headers, cols, 1, <<>>)

\* lines.filter(Boolean): the empty string is the only falsy string.
FilterBoolean(lines) == SelectSeq(lines, LAMBDA l : l # <<>>)

\* headers, rows of lines 44-51, with the delimiter of line 43.
parseWith(lines, delim) ==
    [headers |-> [i \in 1..Len(Split(lines[1], delim)) |->
                     Trim(StripBOM(Split(lines[1], delim)[i]))],
     rows |-> [r \in 1..Len(FilterBoolean(Tail(lines))) |->
                  parseLine(FilterBoolean(Tail(lines))[r], delim,
                            [i \in 1..Len(Split(lines[1], delim)) |->
                                Trim(StripBOM(Split(lines[1], delim)[i]))])],
     delim |-> delim]

parseRaw(raw) ==
    IF raw = <<>> THEN [headers |-> <<>>, rows |-> <<>>, delim |-> "undefined"]
    ELSE parseWith(Split(raw, "\n"), detectDelimiter(Split(raw, "\n")[1]))

parseCSV(text) == parseRaw(Trim(RemoveCR(text)))

(***************************************************************************)
(* Header resolution. Indices are the script's: 0-based, -1 for not found. *)
(***************************************************************************)
IndexOf(xs, x) ==
    LET at == {i \in 1..Len(xs) : xs[i] = x}
    IN  IF at = {} THEN -1 ELSE Min(at) - 1

RECURSIVE findFrom(_, _, _)
findFrom(norm, wantedNames, n) ==
    IF n > Len(wantedNames) THEN -1
    ELSE LET i == IndexOf(norm, ToLowerCase(wantedNames[n]))
         IN  IF i # -1 THEN i ELSE findFrom(norm, wantedNames, n + 1)

\* Mutant: the headers scanned outermost, the aliases innermost.
findHeaderIndexHeadersOuter(headers, wantedNames) ==
    LET hit == {i \in 1..Len(headers) :
                   \E n \in 1..Len(wantedNames) :
                       ToLowerCase(Trim(headers[i])) = ToLowerCase(wantedNames[n])}
    IN  IF hit = {} THEN -1 ELSE Min(hit) - 1

findHeaderIndex(headers, wantedNames) ==
    LET norm == [i \in 1..Len(headers) |-> ToLowerCase(Trim(headers[i]))]
    IN  findFrom(norm, wantedNames, 1)

(***************************************************************************)
(* Date normalisation. Each regular expression is a matcher returning the  *)
(* capture groups, or <<>> when the string does not match.                 *)
(***************************************************************************)
MonthNames ==
    <<Str("jan"), Str("feb"), Str("mar"), Str("apr"), Str("may"), Str("jun"),
      Str("jul"), Str("aug"), Str("sep"), Str("oct"), Str("nov"), Str("dec")>>

\* Mutant: the lookup without toLowerCase().
monthFromTxtCaseSensitive(txt) ==
    LET at == {i \in 1..Len(MonthNames) : MonthNames[i] = txt}
    IN  IF at = {} THEN <<>> ELSE PadStart2(NumToStr(Min(at)))

\* map[t] || ""
monthFromTxt(txt) ==
    LET t == ToLowerCase(txt)
        at == {i \in 1..Len(MonthNames) : MonthNames[i] = t}
    IN  IF at = {} THEN <<>> ELSE PadStart2(NumToStr(Min(at)))

\* /^\d{4}-\d{2}-\d{2}/
MatchIsoPrefix(s) ==
    /\ Len(s) >= 10
    /\ \A i \in {1, 2, 3, 4, 6, 7, 9, 10} : IsDigit(s[i])
    /\ s[5] = "-"
    /\ s[8] = "-"

\* /^\d{4}-\d{2}-\d{2}$/
MatchIsoExact(s) == Len(s) = 10 /\ MatchIsoPrefix(s)

\* /^(\d{1,2})-([A-Za-z]{3})-(\d{n})$/ with n the number of year digits and a
\* the length of the leading run of digits
DayMonYearGroups(s, n, a) ==
    IF /\ a \in {1, 2}
       /\ Len(s) = a + 5 + n
       /\ s[a + 1] = "-"
       /\ \A i \in (a + 2)..(a + 4) : IsLetter(s[i])
       /\ s[a + 5] = "-"
       /\ \A i \in (a + 6)..(a + 5 + n) : IsDigit(s[i])
    THEN <<SubSeq(s, 1, a), SubSeq(s, a + 2, a + 4), SubSeq(s, a + 6, a + 5 + n)>>
    ELSE <<>>

MatchDayMonYear(s, n) == DayMonYearGroups(s, n, DigitRun(s, 1))

\* /^(\d{1,2})[\/\-](\d{1,2})[\/\-](\d{2,4})$/ with a, b the lengths of the first
\* and second run of digits
NumericGroups(s, a, b) ==
    IF /\ b \in {1, 2}
       /\ Len(s) - (a + b + 2) \in {2, 3, 4}
       /\ s[a + 1] \in {"/", "-"}
       /\ s[a + b + 2] \in {"/", "-"}
       /\ \A i \in (a + b + 3)..Len(s) : IsDigit(s[i])
    THEN <<SubSeq(s, 1, a), SubSeq(s, a + 2, a + b + 1), SubSeq(s, a + b + 3, Len(s))>>
    ELSE <<>>

NumericFirst(s, a) ==
    IF a \in {1, 2} /\ a + 2 <= Len(s) THEN NumericGroups(s, a, DigitRun(s, a + 2))
    ELSE <<>>

MatchNumeric(s) == NumericFirst(s, DigitRun(s, 1))

\* /^([A-Za-z]{3})\s+(\d{1,2}),\s*(\d{4})$/ with w the whitespace after the month,
\* a the digits of the day, v the whitespace after the comma
MonDayYearGroups(s, w, a, v) ==
    IF /\ Len(s) = 4 + w + a + v + 4
       /\ \A i \in (4 + w + a + v + 1)..Len(s) : IsDigit(s[i])
    THEN <<SubSeq(s, 1, 3), SubSeq(s, 4 + w, 3 + w + a),
           SubSeq(s, 4 + w + a + v + 1, Len(s))>>
    ELSE <<>>

MonDayYearDay(s, w, a) ==
    IF a \in {1, 2} /\ 4 + w + a + 1 <= Len(s) /\ s[4 + w + a] = ","
    THEN MonDayYearGroups(s, w, a, SpaceRun(s, 4 + w + a + 1))
    ELSE <<>>

MonDayYearSpace(s, w) ==
    IF w >= 1 /\ 4 + w <= Len(s) THEN MonDayYearDay(s, w, DigitRun(s, 4 + w))
    ELSE <<>>

MatchMonDayYear(s) ==
    IF Len(s) >= 4 /\ \A i \in 1..3 : IsLetter(s[i])
    THEN MonDayYearSpace(s, SpaceRun(s, 4))
    ELSE <<>>

IsoOf(yr, mo, d) == yr \o <<"-">> \o mo \o <<"-">> \o d

isoFromDD_MMM_YY(m) ==
    IF monthFromTxt(m[2]) # <<>>
    THEN IsoOf(NumToStr(2000 + ParseInt(m[3])), monthFromTxt(m[2]), PadStart2(m[1]))
    ELSE <<>>

isoFromDD_MMM_YYYY(m) ==
    IF monthFromTxt(m[2]) # <<>>
    THEN IsoOf(NumToStr(ParseInt(m[3])), monthFromTxt(m[2]), PadStart2(m[1]))
    ELSE <<>>

\* Lines 82-87
isoFromNumeric(m) ==
    IsoOf(NumToStr(IF Len(m[3]) = 2 THEN 2000 + ParseInt(m[3]) ELSE ParseInt(m[3])),
          PadStart2(m[2]), PadStart2(m[1]))

\* Lines 91-96
isoFromMonDayYear(m) ==
    IF m # <<>> /\ monthFromTxt(m[1]) # <<>>
    THEN IsoOf(m[3], monthFromTxt(m[1]), PadStart2(m[2]))
    ELSE <<>>

\* Lines 81-98, given the match of line 81
normalizeNumeric(s, m) ==
    IF m # <<>> THEN isoFromNumeric(m) ELSE isoFromMonDayYear(MatchMonDayYear(s))

\* Lines 77-98, given the match of line 77
normalizeLongYear(s, m) ==
    IF m # <<>> THEN isoFromDD_MMM_YYYY(m) ELSE normalizeNumeric(s, MatchNumeric(s))

\* Lines 73-98, given the match of line 73
normalizeShortYear(s, m) ==
    IF m # <<>> THEN isoFromDD_MMM_YY(m) ELSE normalizeLongYear(s, MatchDayMonYear(s, 4))

\* Lines 70-98, s the trimmed string
normalizeTrimmed(s) ==
    IF MatchIsoPrefix(s) THEN SubSeq(s, 1, 10)
    ELSE normalizeShortYear(s, MatchDayMonYear(s, 2))

normalizeDate(raw) == IF raw = <<>> THEN <<>> ELSE normalizeTrimmed(Trim(raw))

(***************************************************************************)
(* The page: setText, fillFromRow.                                         *)
(***************************************************************************)
ElementIds ==
    {"status", "day-name", "date-greg", "date-hijri", "imsak", "fajr", "syuruk",
     "dhuhr", "asr", "maghrib", "isha"}

PrayerIds == {"imsak", "fajr", "syuruk", "dhuhr", "asr", "maghrib", "isha", "date-hijri"}

DAY_MS ==
    <<Str("Ahad"), Str("Isnin"), Str("Selasa"), Str("Rabu"), Str("Khamis"),
      Str("Jumaat"), Str("Sabtu")>>

\* el.textContent = val ?? "-": every caller passes a string, never null or
\* undefined; the page holds an element for every id.
setText(d, id, val) == [d EXCEPT ![id] = [written |-> TRUE, text |-> val]]

setStatus(d, msg) == setText(d, "status", msg)

\* get(names) of fillFromRow: row[headers[idx]] || ""
getCell(row, headers, names) ==
    LET idx == findHeaderIndex(headers, names)
    IN  IF idx = -1 THEN <<>> ELSE ObjGet(row, headers[idx + 1])

fillFromRow(d, row, headers) ==
    LET get(names) == getCell(row, headers, names)
        hijri == get(<<Str("hijri")>>)
        d1 == setText(d, "date-hijri",
                      IF hijri # <<>> THEN Str("Hijri: ") \o hijri ELSE <<>>)
        d2 == setText(d1, "imsak", get(<<Str("imsak")>>))
        d3 == setText(d2, "fajr", get(<<Str("fajr"), Str("subuh")>>))
        d4 == setText(d3, "syuruk", get(<<Str("syuruk"), Str("syuruq")>>))
        d5 == setText(d4, "dhuhr", get(<<Str("dhuhr"), Str("zuhur"), Str("zohor")>>))
        d6 == setText(d5, "asr", get(<<Str("asr"), Str("asar")>>))
        d7 == setText(d6, "maghrib", get(<<Str("maghrib")>>))
    IN  setText(d7, "isha", get(<<Str("isha"), Str("isya"), Str("isya'")>>))

(***************************************************************************)
(* run().                                                                  *)
(***************************************************************************)
\* todayMYT(): yyyy, mm, dd of the clock reading.
todayMM(t) == PadStart2(NumToStr(t.month + 1))

todayDD(t) == PadStart2(NumToStr(t.date))

todayISO(t) == IsoOf(NumToStr(t.yyyy), todayMM(t), todayDD(t))

monthCsvPath(t) ==
    Str("data/waktusolat_SGR01_month_") \o NumToStr(t.yyyy) \o <<"-">> \o todayMM(t)
        \o Str(".csv")

dateCell(row, headers, dateIdx) == ObjGet(row, headers[dateIdx + 1])

\* Mutant: the scan without its break, so the last matching row stays.
scanRowsNoBreak(rows, headers, dateIdx, target, i) ==
    LET hit == {r \in i..Len(rows) : normalizeDate(dateCell(rows[r], headers, dateIdx)) = target}
    IN  IF hit = {} THEN 0 ELSE Max(hit)

\* for (const r of rows) { ... if (iso === todayISO) { rowToday = r; break; } }
RECURSIVE scanRows(_, _, _, _, _)
scanRows(rows, headers, dateIdx, target, i) ==
    IF i > Len(rows) THEN 0
    ELSE IF normalizeDate(dateCell(rows[i], headers, dateIdx)) = target THEN i
    ELSE scanRows(rows, headers, dateIdx, target, i + 1)

\* normalizeDate(cell) || (cell || "").trim()
dateEntry(cell, iso) == IF iso # <<>> THEN iso ELSE Trim(cell)

collectAll(rows, headers, dateIdx) ==
    SelectSeq([i \in 1..Len(rows) |->
                  dateEntry(dateCell(rows[i], headers, dateIdx),
                            normalizeDate(dateCell(rows[i], headers, dateIdx)))],
              LAMBDA x : x # <<>>)

\* first, last of lines 167-168
rangeOf(all, isoOnly) ==
    [all |-> all,
     first |-> IF isoOnly # <<>> THEN isoOnly[1]
               ELSE IF all # <<>> THEN all[1] ELSE Str("?"),
     last |-> IF isoOnly # <<>> THEN isoOnly[Len(isoOnly)]
              ELSE IF all # <<>> THEN all[Len(all)] ELSE Str("?")]

\* Mutant: the ISO-shaped entries left in row order.
diagnoseUnsorted(all) == rangeOf(all, SelectSeq(all, MatchIsoExact))

diagnose(all) == rangeOf(all, Sort(SelectSeq(all, MatchIsoExact)))

missMessage(t, dg) ==
    Str("Tiada entri untuk ") \o todayISO(t) \o Str(". Fail: ") \o monthCsvPath(t) \o <<"\n">>
        \o Str("Contoh tarikh ditemui: ")
        \o Join(SubSeq(dg.all, 1, IF Len(dg.all) < 8 THEN Len(dg.all) ELSE 8), Str(" | "))
        \o <<"\n">> \o Str("Julat ISO (jika ada): ") \o dg.first \o <<" ", "U+2192", " ">>
        \o dg.last

NoDiag == [all |-> <<>>, first |-> <<>>, last |-> <<>>]

MsgLoading == Str("Memuat data") \o <<"U+2026">>

MsgEmpty == Str("CSV kosong.")

MsgNoDate == Str("Lajur 'date' tidak ditemui.")

MsgFailed == Str("Gagal memuat/parse CSV. Semak nama fail & format tarikh.")

MsgUpdated(t) ==
    Str("Dikemas kini daripada CSV ") \o <<"U+2713">> \o Str(" (") \o monthCsvPath(t) \o Str(")")

\* Mutant: the last row rendered on a miss.
onMissLastRow(t, tbl, d, dg) ==
    [dom |-> fillFromRow(setStatus(d, missMessage(t, dg)), tbl.rows[Len(tbl.rows)],
                         tbl.headers),
     rowToday |-> 0, diag |-> dg, path |-> <<"scan", "miss", "fill">>]

\* Lines 161-176: the lookup miss.
onMiss(t, tbl, d, dg) ==
    [dom |-> fillFromRow(setStatus(d, missMessage(t, dg)), tbl.rows[1], tbl.headers),
     rowToday |-> 0, diag |-> dg, path |-> <<"scan", "miss", "fill">>]

\* Lines 161-181, found the result of the scan.
onScanned(t, tbl, d, dateIdx, found) ==
    IF found = 0
    THEN onMiss(t, tbl, d, diagnose(collectAll(tbl.rows, tbl.headers, dateIdx)))
    ELSE [dom |-> setStatus(fillFromRow(d, tbl.rows[found], tbl.headers), MsgUpdated(t)),
          rowToday |-> found, diag |-> NoDiag, path |-> <<"scan", "fill", "updated">>]

\* Lines 151-181, dateIdx the result of line 150.
onDateIdx(t, tbl, d, dateIdx) ==
    IF dateIdx = -1
    THEN [dom |-> setStatus(d, MsgNoDate), rowToday |-> 0, diag |-> NoDiag,
          path |-> <<"nodate">>]
    ELSE onScanned(t, tbl, d, dateIdx,
                   scanRows(tbl.rows, tbl.headers, dateIdx, todayISO(t), 1))

\* Mutant: the date column looked for before the rows are counted.
afterParseDateFirst(t, tbl, d) ==
    IF findHeaderIndex(tbl.headers, <<Str("date"), Str("tarikh")>>) = -1
    THEN [dom |-> setStatus(d, MsgNoDate), rowToday |-> 0, diag |-> NoDiag,
          path |-> <<"nodate">>]
    ELSE IF Len(tbl.rows) = 0
    THEN [dom |-> setStatus(d, MsgEmpty), rowToday |-> 0, diag |-> NoDiag,
          path |-> <<"empty">>]
    ELSE onDateIdx(t, tbl, d, findHeaderIndex(tbl.headers, <<Str("date"), Str("tarikh")>>))

\* Lines 147-181: what run() does with the parsed table.
afterParse(t, tbl, d) ==
    IF Len(tbl.rows) = 0
    THEN [dom |-> setStatus(d, MsgEmpty), rowToday |-> 0, diag |-> NoDiag,
          path |-> <<"empty">>]
    ELSE onDateIdx(t, tbl, d, findHeaderIndex(tbl.headers, <<Str("date"), Str("tarikh")>>))

(***************************************************************************)
(* Inputs: the clock, and the CSV texts the fetch can resolve with (a      *)
(* header line followed by up to MaxLines further lines).                  *)
(***************************************************************************)
MaxLines == 3

\* 2025-09-05 was a Friday, 2025-09-07 a Sunday (getMonth() counts from 0).
Clock ==
    {[yyyy |-> 2025, month |-> 8, date |-> 5, day |-> 5, gregMY |-> Str("05 September 2025")],
     [yyyy |-> 2025, month |-> 8, date |-> 7, day |-> 0, gregMY |-> Str("07 September 2025")]}

HeaderLines ==
    {Str(""),
     Str("date,fajr"),
     <<"U+FEFF">> \o Str("Tarikh ; Subuh\r"),
     Str("2,1"),
     Str("date,date"),
     Str("date,fajr;isha")}

DataLines ==
    {Str("2025-09-05,05:40\r"),
     Str("5-Sep-25;05:41"),
     Str("2025-09-01,05:38"),
     Str(" "),
     Str(""),
     Str("n/a,1,2,3")}

CsvTexts ==
    {Join(<<h>> \o ls, <<"\n">>) :
        h \in HeaderLines, ls \in UNION {[1..k -> DataLines] : k \in 0..MaxLines}}

NoTable == [headers |-> <<>>, rows |-> <<>>, delim |-> "undefined"]

BlankDom == [id \in ElementIds |-> [written |-> FALSE, text |-> <<>>]]

Init ==
    /\ pc = "start"
    /\ today \in Clock
    /\ csvText = <<>>
    /\ table = NoTable
    /\ rowToday = 0
    /\ diag = NoDiag
    /\ dom = BlankDom
    /\ path = <<>>
    /\ hIn = <<>>
    /\ hOut = <<>>

\* Lines 136-145: up to the await of fetchText.
RunStart ==
    /\ pc = "start"
    /\ dom' = setText(setText(setStatus(dom, MsgLoading), "day-name", DAY_MS[today.day + 1]),
                      "date-greg", today.gregMY)
    /\ pc' = "await_fetch"
    /\ UNCHANGED <<today, csvText, table, rowToday, diag, path, hIn, hOut>>

\* fetchText resolves: lines 146-181 run to the end of run().
FetchResolve ==
    /\ pc = "await_fetch"
    /\ \E text \in CsvTexts :
        \E tbl \in {parseCSV(text)} :
            \E r \in {afterParse(today, tbl, dom)} :
                /\ csvText' = text
                /\ table' = tbl
                /\ rowToday' = r.rowToday
                /\ diag' = r.diag
                /\ dom' = r.dom
                /\ path' = r.path
    /\ pc' = "done"
    /\ UNCHANGED <<today, hIn, hOut>>

\* fetch rejects, or the response is not ok and fetchText throws: the catch clause.
FetchReject ==
    /\ pc = "await_fetch"
    /\ dom' = setStatus(dom, MsgFailed)
    /\ path' = <<"catch">>
    /\ pc' = "done"
    /\ UNCHANGED <<today, csvText, table, rowToday, diag, hIn, hOut>>

Next == RunStart \/ FetchResolve \/ FetchReject

Spec == Init /\ [][Next]_vars

(***************************************************************************)
(* findHeaderIndex on its own: every header list of up to MaxHeaders names *)
(* against every alias list of up to MaxAliases names.                      *)
(***************************************************************************)
MaxHeaders == 3

MaxAliases == 2

HeaderNames == {Str("Date"), Str(" Subuh "), Str("Fajr"), Str("FAJR"), Str("Isha")}

AliasNames == {Str("fajr"), Str("subuh"), Str("isya")}

SeqsUpTo(S, n) == UNION {[1..k -> S] : k \in 0..n}

IdleRun ==
    /\ today = CHOOSE t \in Clock : t.date = 5
    /\ csvText = <<>>
    /\ table = NoTable
    /\ rowToday = 0
    /\ diag = NoDiag
    /\ dom = BlankDom
    /\ path = <<>>

InitHeader ==
    /\ IdleRun
    /\ pc = "call"
    /\ hIn \in [headers : SeqsUpTo(HeaderNames, MaxHeaders),
                wantedNames : SeqsUpTo(AliasNames, MaxAliases)]
    /\ hOut = <<>>

CallFindHeaderIndex ==
    /\ pc = "call"
    /\ hOut' = findHeaderIndex(hIn.headers, hIn.wantedNames)
    /\ pc' = "ret"
    /\ UNCHANGED <<today, csvText, table, rowToday, diag, dom, path, hIn>>

SpecHeader == InitHeader /\ [][CallFindHeaderIndex]_vars

(***************************************************************************)
(* normalizeDate on its own, over date-like and other strings.             *)
(***************************************************************************)
DayTexts == {Str("5"), Str("05"), Str("31"), Str("123")}

MonthTexts == {Str("9"), Str("09"), Str("13")}

MonthWords == {Str("Sep"), Str("sep"), Str("DEC"), Str("Foo"), Str("Sept")}

YearTexts == {Str("5"), Str("25"), Str("123"), Str("2025"), Str("0025"), Str("20250")}

DateStrings ==
    {d \o <<p>> \o m \o <<q>> \o y :
        d \in DayTexts, p \in {"/", "-"}, m \in MonthTexts, q \in {"/", "-"}, y \in YearTexts}
    \cup {d \o <<"-">> \o m \o <<"-">> \o y : d \in DayTexts, m \in MonthWords, y \in YearTexts}
    \cup {m \o w \o d \o <<",">> \o v \o y :
            m \in MonthWords, w \in {<<>>, <<" ">>, <<" ", "\t">>}, d \in DayTexts,
            v \in {<<>>, <<" ">>}, y \in {Str("2025"), Str("25"), Str("0025")}}
    \cup {Str(""), Str(" "), Str("not a date"), Str("2025-09-05"), Str(" 2025-09-05 "),
          Str("2025-09-05T06:00:00"), Str("2025-13-40"), Str("2025-9-5"),
          Str("2025/09/05"), Str("20250-09-05"), Str("2025-09-5x")}

InitNormalize ==
    /\ IdleRun
    /\ pc = "call"
    /\ hIn \in DateStrings
    /\ hOut = <<>>

CallNormalizeDate ==
    /\ pc = "call"
    /\ hOut' = normalizeDate(hIn)
    /\ pc' = "ret"
    /\ UNCHANGED <<today, csvText, table, rowToday, diag, dom, path, hIn>>

SpecNormalize == InitNormalize /\ [][CallNormalizeDate]_vars

(***************************************************************************)
(* normalizeDate on the recognised spellings of one date: day d, month m,  *)
(* year 2000 + yy, the month abbreviation in one of three letter cases,    *)
(* day and month written with or without a leading zero.                   *)
(***************************************************************************)
ShortYears == {0, 5, 9, 10, 25, 99}

TwoDigits(n) == <<Digits[(n \div 10) + 1], Digits[(n % 10) + 1]>>

Plain(n, padded) == IF padded \/ n >= 10 THEN TwoDigits(n) ELSE <<Digits[n + 1]>>

ToUpperChar(c) ==
    IF \E i \in 1..Len(LowerAlpha) : LowerAlpha[i] = c
    THEN UpperAlpha[CHOOSE i \in 1..Len(LowerAlpha) : LowerAlpha[i] = c]
    ELSE c

MonthAbbr(m, style) ==
    IF style = "lower" THEN MonthNames[m]
    ELSE IF style = "UPPER" THEN [i \in 1..3 |-> ToUpperChar(MonthNames[m][i])]
    ELSE <<ToUpperChar(MonthNames[m][1]), MonthNames[m][2], MonthNames[m][3]>>

LongYear(yy) == <<"2", "0">> \o TwoDigits(yy)

Spellings(i) ==
    [iso |-> LongYear(i.yy) \o <<"-">> \o TwoDigits(i.m) \o <<"-">> \o TwoDigits(i.d),
     dMonYY |-> Plain(i.d, i.padded) \o <<"-">> \o MonthAbbr(i.m, i.style) \o <<"-">>
                    \o TwoDigits(i.yy),
     dMonYYYY |-> Plain(i.d, i.padded) \o <<"-">> \o MonthAbbr(i.m, i.style) \o <<"-">>
                    \o LongYear(i.yy),
     slash |-> Plain(i.d, i.padded) \o <<"/">> \o Plain(i.m, i.padded) \o <<"/">>
                    \o LongYear(i.yy),
     dash |-> Plain(i.d, i.padded) \o <<"-">> \o Plain(i.m, i.padded) \o <<"-">>
                    \o LongYear(i.yy),
     slashYY |-> Plain(i.d, i.padded) \o <<"/">> \o Plain(i.m, i.padded) \o <<"/">>
                    \o TwoDigits(i.yy),
     dashYY |-> Plain(i.d, i.padded) \o <<"-">> \o Plain(i.m, i.padded) \o <<"-">>
                    \o TwoDigits(i.yy),
     monD |-> MonthAbbr(i.m, i.style) \o <<" ">> \o Plain(i.d, i.padded) \o <<",", " ">>
                    \o LongYear(i.yy)]

SpellingKinds ==
    {"iso", "dMonYY", "dMonYYYY", "slash", "dash", "slashYY", "dashYY", "monD"}

InitSpellings ==
    /\ IdleRun
    /\ pc = "call"
    /\ hIn \in [d : 1..31, m : 1..12, yy : ShortYears, style : {"lower", "Title", "UPPER"},
                padded : BOOLEAN]
    /\ hOut = <<>>

CallNormalizeSpellings ==
    /\ pc = "call"
    /\ hOut' = [k \in SpellingKinds |-> normalizeDate(Spellings(hIn)[k])]
    /\ pc' = "ret"
    /\ UNCHANGED <<today, csvText, table, rowToday, diag, dom, path, hIn>>

SpecSpellings == InitSpellings /\ [][CallNormalizeSpellings]_vars

(***************************************************************************)
(* Properties.                                                             *)
(***************************************************************************)
\* Header h is named by alias a: trimmed and lower-cased, it equals the alias.
Names(a, h) == ToLowerCase(Trim(h)) = ToLowerCase(a)

MatchingHeaders(headers, aliases) ==
    {i \in 1..Len(headers) : \E n \in 1..Len(aliases) : Names(aliases[n], headers[i])}

MatchingAliases(headers, aliases) ==
    {n \in 1..Len(aliases) : \E i \in 1..Len(headers) : Names(aliases[n], headers[i])}

\* C1, as stated: findHeaderIndex returns the earliest header that any alias names,
\* whatever the alias's position in the alias list; -1 when no alias names a header.
C1_EarliestHeaderOfAnyAlias ==
    pc = "ret" =>
        hOut = IF MatchingHeaders(hIn.headers, hIn.wantedNames) = {} THEN -1
               ELSE Min(MatchingHeaders(hIn.headers, hIn.wantedNames)) - 1

\* C1, amended: findHeaderIndex returns the earliest header named by the first alias
\* (in alias order) that names any header; -1 when no alias names a header.
C1_EarliestHeaderOfFirstAlias ==
    pc = "ret" =>
        hOut = IF MatchingAliases(hIn.headers, hIn.wantedNames) = {} THEN -1
               ELSE Min(MatchingHeaders(hIn.headers,
                            <<hIn.wantedNames[Min(MatchingAliases(hIn.headers,
                                                                  hIn.wantedNames))]>>)) - 1

\* Aliases [fajr, subuh] against headers [Date, Subuh, Fajr] resolved to Fajr (index 2).
C1_Witness ==
    /\ pc = "ret"
    /\ hIn.headers = <<Str("Date"), Str(" Subuh "), Str("Fajr")>>
    /\ hIn.wantedNames = <<Str("fajr"), Str("subuh")>>
    /\ hOut = 2

\* The shape YYYY-MM-DD: four digits, '-', two digits, '-', two digits.
IsYMD(s) ==
    /\ Len(s) = 10
    /\ \A i \in 1..10 : IF i \in {5, 8} THEN s[i] = "-" ELSE s[i] \in {Digits[j] : j \in 1..10}

\* C2: normalizeDate returns the empty string or a string of the shape YYYY-MM-DD.
C2_EmptyOrYMD == pc = "ret" => (hOut = <<>> \/ IsYMD(hOut))

\* The run got past the fetch: the table in the state is the parsed text.
Parsed == pc = "done" /\ path # <<"catch">>

\* The text as parseCSV sees it, its first line, and the lines after the first.
RawText == Trim(RemoveCR(csvText))

FirstLine == Split(RawText, "\n")[1]

LaterLines == Tail(Split(RawText, "\n"))

IsBlank(line) == \A i \in 1..Len(line) : IsWS(line[i])

Count(line, c) == Cardinality({i \in 1..Len(line) : line[i] = c})

\* The i-th cell of a line, trimmed; the empty string when the line has no i-th cell.
CellAt(line, delim, i) ==
    IF i <= Len(Split(line, delim)) THEN Trim(Split(line, delim)[i]) ELSE <<>>

\* C3: every row's keys are exactly the header sequence, in order and in number, and
\* header i maps to the trimmed i-th cell of the row's line (the empty string when the
\* line has no i-th cell).
C3_RowKeysAreHeaders ==
    Parsed /\ RawText # <<>> =>
        LET kept == SelectSeq(LaterLines, LAMBDA l : l # <<>>)
        IN  \A r \in 1..Len(table.rows) :
                /\ ObjKeys(table.rows[r]) = table.headers
                /\ \A i \in 1..Len(table.headers) :
                       /\ i <= Len(table.rows[r])
                       /\ table.rows[r][i].v = CellAt(kept[r], table.delim, i)

\* C10: the rows are the non-blank lines after the header line: a line that is empty
\* or only whitespace gives no row.
C10_BlankLinesGiveNoRow ==
    Parsed /\ RawText # <<>> =>
        Len(table.rows) = Len(SelectSeq(LaterLines, LAMBDA l : ~IsBlank(l)))

\* The cells of a line: its parts between the delimiters, trimmed.
CellsOf(line, d) ==
    LET parts == Split(line, d)
    IN  [i \in 1..Len(parts) |-> Trim(parts[i])]

\* C8: the delimiter is the semicolon exactly when the first line holds more semicolons
\* than commas, and the comma otherwise; the header line and every kept line are split
\* on it.
C8_DelimiterFromFirstLine ==
    Parsed /\ RawText # <<>> =>
        LET first == FirstLine
            d == IF Count(first, ";") > Count(first, ",") THEN ";" ELSE ","
            names == Split(first, d)
            kept == SelectSeq(LaterLines, LAMBDA l : l # <<>>)
        IN  /\ table.delim = d
            /\ table.headers = [i \in 1..Len(names) |-> Trim(StripBOM(names[i]))]
            /\ table.rows
                   = [r \in 1..Len(kept) |->
                         RowObject(table.headers, CellsOf(kept[r], d), 1, <<>>)]

\* The first line holds as many semicolons as commas (at least one of each), a later
\* line holds more semicolons than commas, and the comma was chosen.
C8_Witness ==
    /\ Parsed
    /\ RawText # <<>>
    /\ Count(FirstLine, ";") = Count(FirstLine, ",")
    /\ Count(FirstLine, ",") > 0
    /\ \E k \in 1..Len(LaterLines) : Count(LaterLines[k], ";") > Count(LaterLines[k], ",")
    /\ table.delim = ","
    /\ Len(table.rows) > 0

\* The date column of the table, and the rows whose canonical date is the target.
DateColumn == findHeaderIndex(table.headers, <<Str("date"), Str("tarikh")>>)

CanonicalDateOf(r, dc) == normalizeDate(dateCell(table.rows[r], table.headers, dc))

RowsOfToday(dc) == {r \in 1..Len(table.rows) : CanonicalDateOf(r, dc) = todayISO(today)}

\* The table has rows: the run went on to look for the date column.
HasRows == Parsed /\ Len(table.rows) > 0

\* What fillFromRow shows of row r, and what the page shows, in the prayer-time fields.
Shown(r) ==
    LET filled == fillFromRow(BlankDom, table.rows[r], table.headers)
    IN  [id \in PrayerIds |-> filled[id]]

OnPage == [id \in PrayerIds |-> dom[id]]

\* C4: a row is matched exactly when some row's canonical date equals the target; the
\* matched row is the first such row in table order, and it is the row rendered.
C4_FirstRowOfToday ==
    HasRows =>
        LET dc == DateColumn
            hits == RowsOfToday(dc)
        IN  dc # -1 =>
                /\ rowToday # 0 <=> hits # {}
                /\ rowToday # 0 =>
                       /\ rowToday \in hits
                       /\ \A r \in 1..(rowToday - 1) : r \notin hits
                       /\ OnPage = Shown(rowToday)
                       /\ dom["status"].text = MsgUpdated(today)

\* Two different rows carry the target date and the earlier one was matched.
C4_Witness ==
    /\ HasRows
    /\ DateColumn # -1
    /\ rowToday = 1
    /\ \E r \in RowsOfToday(DateColumn) : r > 1 /\ table.rows[r] # table.rows[1]
    /\ dom["fajr"].text # <<>>

\* C5, as stated: on a lookup miss the resolved row is null and no prayer-time field
\* (nor the hijri date) is written from any row.
C5_MissWritesNoField ==
    HasRows =>
        LET dc == DateColumn
        IN  dc # -1 /\ RowsOfToday(dc) = {} =>
                /\ rowToday = 0
                /\ \A id \in PrayerIds : ~dom[id].written

\* C5, amended: on a lookup miss the resolved row is null, the status is the diagnostic
\* summary, and every prayer-time field (and the hijri date) is written from the first
\* row of the table.
C5_MissShowsFirstRow ==
    HasRows =>
        LET dc == DateColumn
        IN  dc # -1 /\ RowsOfToday(dc) = {} =>
                /\ rowToday = 0
                /\ dom["status"].text = missMessage(today, diag)
                /\ OnPage = Shown(1)

\* A miss on a table whose first and last rows show different times.
C5_Witness ==
    /\ HasRows
    /\ DateColumn # -1
    /\ RowsOfToday(DateColumn) = {}
    /\ Len(table.rows) >= 2
    /\ Shown(1) # Shown(Len(table.rows))
    /\ dom["fajr"].text # <<>>

NoDateHeader ==
    \A i \in 1..Len(table.headers) :
        ToLowerCase(Trim(table.headers[i])) \notin {Str("date"), Str("tarikh")}

Untouched ==
    /\ rowToday = 0
    /\ diag = NoDiag
    /\ \A id \in PrayerIds : dom[id] = BlankDom[id]
    /\ dom["status"].text # MsgFailed

\* C6: a table without data rows ends the run with "CSV kosong." (checked first), a
\* table without a date header with "Lajur 'date' tidak ditemui."; either way no row
\* is scanned, no diagnostics are made, no prayer-time field is written and the
\* failure status is not reached.
C6_StructuralFailureHalts ==
    Parsed =>
        /\ Len(table.rows) = 0 =>
               dom["status"].text = MsgEmpty /\ path = <<"empty">> /\ Untouched
        /\ Len(table.rows) > 0 /\ NoDateHeader =>
               dom["status"].text = MsgNoDate /\ path = <<"nodate">> /\ Untouched

\* A header line without a date header and no data rows: the empty-table status won.
C6_Witness ==
    /\ Parsed
    /\ Len(table.headers) > 0
    /\ NoDateHeader
    /\ Len(table.rows) = 0
    /\ dom["status"].text = MsgEmpty

\* The per-row entries of the diagnostics: the canonical date, else the trimmed cell;
\* empty entries left out.
EntryOf(r, dc) ==
    LET iso == CanonicalDateOf(r, dc)
    IN  IF iso # <<>> THEN iso ELSE Trim(dateCell(table.rows[r], table.headers, dc))

Entries(dc) ==
    SelectSeq([r \in 1..Len(table.rows) |-> EntryOf(r, dc)], LAMBDA x : x # <<>>)

\* C7: on a miss the reported range is the lexicographic minimum and maximum of the
\* ISO-shaped entries; without ISO-shaped entries, the first and last entry in row
\* order; "?" when there is no entry.
C7_RangeOfMiss ==
    HasRows =>
        LET dc == DateColumn
            all == Entries(dc)
            iso == {all[i] : i \in {j \in 1..Len(all) : IsYMD(all[j])}}
        IN  dc # -1 /\ RowsOfToday(dc) = {} =>
                /\ diag.all = all
                /\ dom["status"].text = missMessage(today, diag)
                /\ IF iso # {}
                   THEN /\ diag.first \in iso
                        /\ diag.last \in iso
                        /\ \A x \in iso : ~StrLess(x, diag.first) /\ ~StrLess(diag.last, x)
                   ELSE IF all # <<>>
                   THEN diag.first = all[1] /\ diag.last = all[Len(all)]
                   ELSE diag.first = Str("?") /\ diag.last = Str("?")

\* A miss where the ISO-shaped entries are out of order in the table and an entry
\* that is not ISO-shaped comes last.
C7_Witness ==
    /\ HasRows
    /\ DateColumn # -1
    /\ RowsOfToday(DateColumn) = {}
    /\ Len(diag.all) = 3
    /\ diag.all[1] = Str("2025-09-05")
    /\ diag.all[2] = Str("2025-09-01")
    /\ ~IsYMD(diag.all[3])
    /\ diag.first = Str("2025-09-01")
    /\ diag.last = Str("2025-09-05")

\* The canonical string of the date drawn: YYYY-MM-DD, zero-padded, year 2000 + yy.
Canonical(i) == LongYear(i.yy) \o <<"-">> \o TwoDigits(i.m) \o <<"-">> \o TwoDigits(i.d)

\* C9: every recognised spelling of a date normalises to its canonical string, and a
\* two-digit year is read as 2000 + YY.
C9_SpellingsAgree == pc = "ret" => \A k \in SpellingKinds : hOut[k] = Canonical(hIn)

\* 5 September 2025 written 5-Sep-25, 5/9/2025 and Sep 5, 2025.
C9_Witness ==
    /\ pc = "ret"
    /\ Spellings(hIn).dMonYY = Str("5-Sep-25")
    /\ Spellings(hIn).slash = Str("5/9/2025")
    /\ Spellings(hIn).monD = Str("Sep 5, 2025")
    /\ hOut["dMonYY"] = Str("2025-09-05")
    /\ hOut["monD"] = Str("2025-09-05")

====
